---- MODULE Spec2Model ----
(***************************************************************************)
(* PredictiveServiceClient (dato/deploy/_client.py, Python 2).             *)
(*                                                                         *)
(* One client object talks to one remote service.  The state is the       *)
(* object's attributes, the HTTP requests it has issued, and what the     *)
(* last call handed back to its caller.  The server, the file system and  *)
(* the caller's arguments are the environment: every action draws them    *)
(* from small sets.                                                        *)
(***************************************************************************)
EXTENDS Integers, Sequences, FiniteSets, TLC

\* Number of set_query_timeout / query / feedback calls made on the client.
MaxCalls == 3

-----------------------------------------------------------------------------
(* Python values.  Every value is a record with its Python type.           *)

None == [type |-> "NoneType"]
PyInt(n) == [type |-> "int", num |-> n]
\* a long: what 30L is, and every integer beyond sys.maxint
PyLong(n) == [type |-> "long", num |-> n]
\* a float, given in tenths: PyFloat(25) is 2.5
PyFloat(t) == [type |-> "float", tenths |-> t]
PyStr(s) == [type |-> "str", s |-> s]
\* a unicode string; ascii: whether all its characters are ASCII
PyUnicode(s, ascii) == [type |-> "unicode", s |-> s, ascii |-> ascii]
PyBool(b) == [type |-> "bool", b |-> b]
\* a dict: its items, and whether json.dumps can serialise its values
PyDict(items, ok) == [type |-> "dict", items |-> items, serializable |-> ok]
PyList(n) == [type |-> "list", len |-> n]

\* bool(v)
Truthy(v) ==
    CASE v.type = "NoneType" -> FALSE
      [] v.type \in {"int", "long"} -> v.num # 0
      [] v.type = "float" -> v.tenths # 0
      [] v.type \in {"str", "unicode"} -> v.s # ""
      [] v.type = "bool" -> v.b
      [] v.type = "dict" -> v.items # {}
      [] v.type = "list" -> v.len # 0
      [] OTHER -> TRUE

\* isinstance(v, int): bool is a subclass of int, long is not
IsInstanceInt(v) == v.type \in {"int", "bool"}

\* isinstance(v, basestring)
IsInstanceBasestring(v) == v.type \in {"str", "unicode"}

\* v <= 0 as Python 2 orders values: None is below every number, a string
\* is above every number
LessEqualZero(v) ==
    CASE v.type \in {"int", "long"} -> v.num <= 0
      [] v.type = "float" -> v.tenths <= 0
      [] v.type = "bool" -> ~v.b
      [] v.type = "NoneType" -> TRUE
      [] OTHER -> FALSE

\* v < n as Python 2 orders values, n an int
LessThan(v, n) ==
    CASE v.type \in {"int", "long"} -> v.num < n
      [] v.type = "float" -> v.tenths < 10 * n
      [] v.type = "NoneType" -> TRUE
      [] OTHER -> FALSE

\* an exception: its class and the raise statement it comes from
Raise(class, site) == [kind |-> "raise", exc |-> class, site |-> site]
Return(v) == [kind |-> "return", value |-> v]

-----------------------------------------------------------------------------
(* json.loads and json.dumps, on the texts the server can answer with.     *)

SchemaVersions == {5, 7, 9}

SchemaText(n) ==
    CASE n = 5 -> "{\"schema_version\": 5}"
      [] n = 7 -> "{\"schema_version\": 7}"
      [] n = 9 -> "{\"schema_version\": 9}"

EmptyObjectText == "{}"
ArrayText == "[1, 2]"
AckText == "{\"ack\": true}"
ResponseText == "{\"response\": 42}"
HtmlText == "<html>Bad Gateway</html>"

\* json.loads(text): the parsed value, or ValueError
JsonLoads(text) ==
    CASE text = EmptyObjectText -> Return(PyDict({}, TRUE))
      [] text = ArrayText -> Return(PyList(2))
      [] text = AckText -> Return(PyDict({<<"ack", PyBool(TRUE)>>}, TRUE))
      [] text = ResponseText -> Return(PyDict({<<"response", PyInt(42)>>}, TRUE))
      [] \E n \in SchemaVersions : text = SchemaText(n) ->
            LET n == CHOOSE m \in SchemaVersions : text = SchemaText(m)
            IN  Return(PyDict({<<"schema_version", PyInt(n)>>}, TRUE))
      [] OTHER -> Raise("ValueError", "json.loads")

\* d.get(key, default)
DictGet(d, key, default) ==
    IF \E p \in d.items : p[1] = key
    THEN (CHOOSE p \in d.items : p[1] = key)[2]
    ELSE default

\* d.update({key: v})
DictUpdate(d, key, v) ==
    [d EXCEPT !.items = {p \in d.items : p[1] # key} \cup {<<key, v>>}]

\* json.dumps(d): the JSON text of d, given by the members it writes, or
\* TypeError when a value cannot be serialised
JsonDumps(d) ==
    IF d.serializable /\ \A p \in d.items :
           p[2].type = "dict" => p[2].serializable
    THEN Return([type |-> "json", members |-> d.items])
    ELSE Raise("TypeError", "json.dumps")

-----------------------------------------------------------------------------
(* The configuration files on disk.                                        *)

SERVICE_INFO_SECTION_NAME == "Service Info"

NoFile == [isfile |-> FALSE, sections |-> {}, options |-> {}]
IniFile(sections, options) ==
    [isfile |-> TRUE, sections |-> sections, options |-> options]

FileEndpoint == "https://ps.example.com"
FileApiKey == "file-key"

ConfigPaths ==
    {"/no/such/file", "/etc/ps/other.ini", "/etc/ps/full.ini",
     "/etc/ps/noverify.ini", "/etc/ps/verifyoff.ini", "/etc/ps/nokey.ini",
     "/etc/ps/badbool.ini"}

\* the file at a path: whether it exists, its sections, and the options of
\* its Service Info section
File(path) ==
    CASE path = "/etc/ps/other.ini" ->
            IniFile({"Other"}, {})
      [] path = "/etc/ps/full.ini" ->
            IniFile({SERVICE_INFO_SECTION_NAME, "Other"},
                    {<<"endpoint", FileEndpoint>>, <<"api key", FileApiKey>>,
                     <<"verify certificate", "True">>})
      [] path = "/etc/ps/noverify.ini" ->
            IniFile({SERVICE_INFO_SECTION_NAME},
                    {<<"endpoint", FileEndpoint>>, <<"api key", FileApiKey>>})
      [] path = "/etc/ps/verifyoff.ini" ->
            IniFile({SERVICE_INFO_SECTION_NAME},
                    {<<"endpoint", FileEndpoint>>, <<"api key", FileApiKey>>,
                     <<"verify certificate", "false">>})
      [] path = "/etc/ps/nokey.ini" ->
            IniFile({SERVICE_INFO_SECTION_NAME},
                    {<<"endpoint", FileEndpoint>>})
      [] path = "/etc/ps/badbool.ini" ->
            IniFile({SERVICE_INFO_SECTION_NAME},
                    {<<"endpoint", FileEndpoint>>, <<"api key", FileApiKey>>,
                     <<"verify certificate", "maybe">>})
      [] OTHER -> NoFile

has_option(file, option) == \E p \in file.options : p[1] = option

\* config.get(SERVICE_INFO_SECTION_NAME, option)
ConfigGet(file, option) ==
    IF has_option(file, option)
    THEN Return(PyStr((CHOOSE p \in file.options : p[1] = option)[2]))
    ELSE Raise("NoOptionError", "config.get")

\* config.getboolean(SERVICE_INFO_SECTION_NAME, option)
getboolean(file, option) ==
    LET got == ConfigGet(file, option)
    IN  IF got.kind = "raise" THEN got
        ELSE IF got.value.s \in {"1", "yes", "true", "True", "on"}
             THEN Return(PyBool(TRUE))
        ELSE IF got.value.s \in {"0", "no", "false", "False", "off"}
             THEN Return(PyBool(FALSE))
        ELSE Raise("ValueError", "config.getboolean")

\* the connection attributes a constructor call resolves
Attributes(endpoint, api_key, verify) ==
    [endpoint |-> endpoint, api_key |-> api_key,
     should_verify_certificate |-> verify]

\* _read_config with the certificate check on when the file is silent
_read_config_VerifyByDefault(config_file) ==
    LET file == File(config_file.s)
        endpoint == ConfigGet(file, "endpoint")
        api_key == ConfigGet(file, "api key")
        verify == IF has_option(file, "verify certificate")
                  THEN getboolean(file, "verify certificate")
                  ELSE Return(PyBool(TRUE))
    IN  IF ~file.isfile THEN Raise("RuntimeError", "_read_config:240")
        ELSE IF SERVICE_INFO_SECTION_NAME \notin file.sections
             THEN Raise("RuntimeError", "_read_config:247")
        ELSE IF endpoint.kind = "raise" THEN endpoint
        ELSE IF api_key.kind = "raise" THEN api_key
        ELSE IF verify.kind = "raise" THEN verify
        ELSE Return(Attributes(endpoint.value, api_key.value, verify.value))

\* _read_config(config_file): the attributes it sets, or the exception
_read_config(config_file) ==
    LET file == File(config_file.s)
        endpoint == ConfigGet(file, "endpoint")
        api_key == ConfigGet(file, "api key")
        verify == IF has_option(file, "verify certificate")
                  THEN getboolean(file, "verify certificate")
                  ELSE Return(PyBool(FALSE))
    IN  IF ~file.isfile THEN Raise("RuntimeError", "_read_config:240")
        ELSE IF SERVICE_INFO_SECTION_NAME \notin file.sections
             THEN Raise("RuntimeError", "_read_config:247")
        ELSE IF endpoint.kind = "raise" THEN endpoint
        ELSE IF api_key.kind = "raise" THEN api_key
        ELSE IF verify.kind = "raise" THEN verify
        ELSE Return(Attributes(endpoint.value, api_key.value, verify.value))

\* lines 74-82 of __init__: the attributes from the file, or from the
\* arguments
ResolveConfig(args) ==
    IF Truthy(args.config_file) THEN _read_config(args.config_file)
    ELSE IF ~Truthy(args.endpoint) \/ ~Truthy(args.api_key)
         THEN Raise("ValueError", "__init__:78")
    ELSE Return(Attributes(args.endpoint, args.api_key,
                           IF Truthy(args.should_verify_certificate)
                           THEN args.should_verify_certificate
                           ELSE PyBool(FALSE)))

-----------------------------------------------------------------------------
(* The server.                                                             *)

\* the session could not complete the exchange (connection refused, TLS
\* failure, timeout): requests raises
NetworkError == [type |-> "ConnectionError"]
Response(status, text) ==
    [type |-> "Response", status_code |-> status, text |-> text]

PingTexts ==
    {SchemaText(n) : n \in SchemaVersions}
        \cup {EmptyObjectText, ArrayText, HtmlText}
PingReplies ==
    {NetworkError} \cup {Response(st, t) : st \in {200, 500}, t \in PingTexts}

PostTexts == {AckText, ResponseText, HtmlText}
PostReplies ==
    {NetworkError}
        \cup {Response(st, t) : st \in {200, 404, 500}, t \in PostTexts}

-----------------------------------------------------------------------------
(* The client object.                                                      *)

\* the object before __init__ has set anything
NoClient ==
    [endpoint |-> None, api_key |-> None, should_verify_certificate |-> None,
     query_timeout |-> None, _schema_version |-> None, session |-> FALSE]

\* the requests a call issued and what it handed to its caller
Effect(obj, requests, outcome) ==
    [self |-> obj, requests |-> requests, outcome |-> outcome]

Get(url, verify) ==
    [method |-> "GET", url |-> url, verify |-> verify]

\* _ping with the status check dropped
_ping_AnyStatus(obj, reply) ==
    LET withSession == [obj EXCEPT !.session = TRUE]
        request == Get(obj.endpoint.s, obj.should_verify_certificate)
    IN  IF reply = NetworkError
        THEN Effect(withSession, <<request>>,
                    Raise("ConnectionError", "session.get"))
        ELSE Effect(withSession, <<request>>, Return(PyStr(reply.text)))

\* _ping(): one GET of the endpoint; the body text on 200
_ping(obj, reply) ==
    LET withSession == [obj EXCEPT !.session = TRUE]
        request == Get(obj.endpoint.s, obj.should_verify_certificate)
    IN  IF reply = NetworkError
        THEN Effect(withSession, <<request>>,
                    Raise("ConnectionError", "session.get"))
        ELSE IF reply.status_code = 200
        THEN Effect(withSession, <<request>>, Return(PyStr(reply.text)))
        ELSE Effect(withSession, <<request>>,
                    Raise("RuntimeError", "_ping:217"))

\* json.loads(res).get('schema_version', -1): a parsed value that is no
\* dict has no get
SchemaVersionIn(res) ==
    LET parsed == JsonLoads(res.s)
    IN  IF parsed.kind = "raise" THEN parsed
        ELSE IF parsed.value.type # "dict"
             THEN Raise("AttributeError", "__init__:87")
        ELSE Return(DictGet(parsed.value, "schema_version", PyInt(-1)))

\* __init__(endpoint, api_key, should_verify_certificate, config_file)
__init__(args, reply) ==
    LET config == ResolveConfig(args)
    IN  IF config.kind = "raise" THEN Effect(NoClient, <<>>, config)
        ELSE
          LET resolved ==
                  [NoClient EXCEPT
                      !.endpoint = config.value.endpoint,
                      !.api_key = config.value.api_key,
                      !.should_verify_certificate =
                          config.value.should_verify_certificate,
                      !.query_timeout = PyInt(10)]
              ping == _ping(resolved, reply)
              version == IF ping.outcome.kind = "raise" THEN ping.outcome
                         ELSE SchemaVersionIn(ping.outcome.value)
          IN  Effect([ping.self EXCEPT
                         !._schema_version =
                             IF version.kind = "raise" THEN PyInt(-1)
                             ELSE version.value],
                     ping.requests, Return(None))

-----------------------------------------------------------------------------
(* The calls.                                                              *)

\* urllib.quote(uri), on the uris the callers use: Python 2's quote looks
\* each character up in a table of the 256 byte values, and a unicode
\* character outside ASCII is not in it
quote(uri) ==
    CASE uri.type = "unicode" /\ ~uri.ascii ->
            Raise("KeyError", "urllib.quote")
      [] uri.s = "my model" -> Return("my%20model")
      [] OTHER -> Return(uri.s)

\* lines 224-225 of _post with the comparison off by one
PostPayload_UpToSeven(obj, data) ==
    IF LessThan(obj._schema_version, 8)
    THEN DictUpdate(data, "api_key", obj.api_key)
    ELSE data

\* lines 224-225 of _post: api_key goes into the payload for old services
PostPayload(obj, data) ==
    IF LessThan(obj._schema_version, 7)
    THEN DictUpdate(data, "api_key", obj.api_key)
    ELSE data

\* lines 231-232 of _post with the caller's timeout ignored
PostTimeout_AlwaysDefault(timeout) == PyInt(10)

\* lines 231-232 of _post: the timeout of the exchange
PostTimeout(timeout) ==
    IF ~Truthy(timeout) \/ ~IsInstanceInt(timeout) THEN PyInt(10)
    ELSE timeout

Post(url, data, verify, timeout, auth) ==
    [method |-> "POST", url |-> url, data |-> data,
     headers |-> {<<"content-type", "application/json">>},
     verify |-> verify, timeout |-> timeout, auth |-> auth]

\* _post that keeps the timeout it used as the client's query timeout
_post_StoreTimeout(obj, path, data, timeout, reply) ==
    LET payload == PostPayload(obj, IF data = None THEN PyDict({}, TRUE)
                                    ELSE data)
        body == JsonDumps(payload)
        request == Post(obj.endpoint.s \o "/" \o path, body.value,
                        obj.should_verify_certificate, PostTimeout(timeout),
                        <<"api_key", obj.api_key>>)
        stored == [obj EXCEPT !.query_timeout = PostTimeout(timeout)]
    IN  IF body.kind = "raise" THEN Effect(obj, <<>>, body)
        ELSE IF reply = NetworkError
        THEN Effect(stored, <<request>>,
                    Raise("ConnectionError", "session.post"))
        ELSE Effect(stored, <<request>>, Return(reply))

\* _post that posts again when the exchange fails
_post_Retry(obj, path, data, timeout, reply) ==
    LET payload == PostPayload(obj, IF data = None THEN PyDict({}, TRUE)
                                    ELSE data)
        body == JsonDumps(payload)
        request == Post(obj.endpoint.s \o "/" \o path, body.value,
                        obj.should_verify_certificate, PostTimeout(timeout),
                        <<"api_key", obj.api_key>>)
    IN  IF body.kind = "raise" THEN Effect(obj, <<>>, body)
        ELSE IF reply = NetworkError
        THEN Effect(obj, <<request, request>>,
                    Raise("ConnectionError", "session.post"))
        ELSE Effect(obj, <<request>>, Return(reply))

\* _post(path, data, timeout): one POST; the Response, whatever its status
_post(obj, path, data, timeout, reply) ==
    LET payload == PostPayload(obj, IF data = None THEN PyDict({}, TRUE)
                                    ELSE data)
        body == JsonDumps(payload)
        request == Post(obj.endpoint.s \o "/" \o path, body.value,
                        obj.should_verify_certificate, PostTimeout(timeout),
                        <<"api_key", obj.api_key>>)
    IN  IF body.kind = "raise" THEN Effect(obj, <<>>, body)
        ELSE IF reply = NetworkError
        THEN Effect(obj, <<request>>,
                    Raise("ConnectionError", "session.post"))
        ELSE Effect(obj, <<request>>, Return(reply))

\* set_query_timeout(timeout)
set_query_timeout(obj, timeout) ==
    IF LessEqualZero(timeout) \/ ~IsInstanceInt(timeout)
    THEN Effect(obj, <<>>, Raise("ValueError", "set_query_timeout:118"))
    ELSE Effect([obj EXCEPT !.query_timeout = timeout], <<>>, Return(None))

\* response.json()
ResponseJson(response) == JsonLoads(response.text)

\* lines 170-175 of query without the 404 branch
QueryResult_No404(response, uri) ==
    IF response.status_code = 200 THEN ResponseJson(response)
    ELSE [kind |-> "raise", exc |-> "RuntimeError", site |-> "query:175",
          status_code |-> response.status_code, text |-> response.text]

\* lines 170-175 of query: what the caller gets for a Response
QueryResult(response, uri) ==
    IF response.status_code = 200 THEN ResponseJson(response)
    ELSE IF response.status_code = 404
    THEN [kind |-> "raise", exc |-> "NonExistError", site |-> "query:173",
          uri |-> uri]
    ELSE [kind |-> "raise", exc |-> "RuntimeError", site |-> "query:175",
          status_code |-> response.status_code, text |-> response.text]

\* query(uri, **kwargs)
query(obj, uri, kwargs, reply) ==
    IF ~IsInstanceBasestring(uri)
    THEN Effect(obj, <<>>, Raise("TypeError", "query:163"))
    ELSE
      LET quoted == quote(uri)
          internal_data == PyDict({<<"data", kwargs>>}, TRUE)
          post == _post(obj, "query/" \o quoted.value, internal_data,
                        obj.query_timeout, reply)
      IN  IF quoted.kind = "raise" THEN Effect(obj, <<>>, quoted)
          ELSE IF post.outcome.kind = "raise" THEN post
          ELSE Effect(post.self, post.requests,
                      QueryResult(post.outcome.value, quoted.value))

\* feedback without the check of data
feedback_NoDataCheck(obj, key, data, reply) ==
    IF ~IsInstanceBasestring(key)
    THEN Effect(obj, <<>>, Raise("RuntimeError", "feedback:200"))
    ELSE _post(obj, "feedback",
               PyDict({<<"data", data>>, <<"id", key>>}, TRUE), None, reply)

\* feedback(key, data)
feedback(obj, key, data, reply) ==
    IF ~IsInstanceBasestring(key)
    THEN Effect(obj, <<>>, Raise("RuntimeError", "feedback:200"))
    ELSE IF data.type # "dict"
    THEN Effect(obj, <<>>, Raise("RuntimeError", "feedback:202"))
    ELSE _post(obj, "feedback",
               PyDict({<<"data", data>>, <<"id", key>>}, TRUE), None, reply)

-----------------------------------------------------------------------------
(* The state machine.                                                      *)

VARIABLES
    phase,      \* "new": not constructed; "ready": constructed;
                \* "failed": __init__ raised, there is no object
    self,       \* the client object's attributes
    log,        \* the method of every HTTP request issued so far, in order
    call,       \* the last call: its arguments, the requests it issued, the
                \* server's answer and what the caller got
    last_set,   \* the argument of the last set_query_timeout call that
                \* returned, None when there was none
    ncalls      \* the calls made on the constructed client

vars == <<phase, self, log, call, last_set, ncalls>>

\* what the caller passes
InitArgs ==
    [config_file : {None} \cup {PyStr(p) : p \in ConfigPaths},
     endpoint : {None, PyStr(""), PyStr("http://svc.example.com")},
     api_key : {None, PyStr("secret")},
     should_verify_certificate : {None, PyBool(TRUE), PyBool(FALSE)}]
TimeoutArgs ==
    {PyInt(n) : n \in {-5, 0, 1, 10, 30}}
        \cup {PyLong(30), PyFloat(25), PyFloat(-15), PyStr("30"), None}
Uris ==
    {PyStr("recommender"), PyStr("my model"), PyUnicode("caf\\xe9", FALSE),
     PyInt(123)}
Kwargs ==
    {PyDict({<<"method", PyStr("predict")>>}, TRUE),
     PyDict({<<"data", [type |-> "file"]>>}, FALSE)}
Keys == {PyStr("id1"), PyInt(7)}
FeedbackData ==
    {PyDict({<<"k", PyStr("v")>>}, TRUE),
     PyDict({<<"k", [type |-> "file"]>>}, FALSE), PyList(1)}

NoCall ==
    [op |-> "none", args |-> [none |-> TRUE], requests |-> <<>>, reply |-> None,
     outcome |-> Return(None)]

\* a call as its caller and the network saw it; a call that issues no request
\* gets no answer from the server
Called(op, args, effect, reply) ==
    [op |-> op, args |-> args, requests |-> effect.requests,
     reply |-> IF effect.requests = <<>> THEN None ELSE reply,
     outcome |-> effect.outcome]

Methods(requests) == [i \in 1..Len(requests) |-> requests[i].method]

Init ==
    /\ phase = "new"
    /\ self = NoClient
    /\ log = <<>>
    /\ call = NoCall
    /\ last_set = None
    /\ ncalls = 0

Construct ==
    /\ phase = "new"
    /\ \E args \in InitArgs, reply \in PingReplies :
          LET effect == __init__(args, reply)
          IN  /\ phase' = IF effect.outcome.kind = "raise" THEN "failed"
                          ELSE "ready"
              /\ self' = effect.self
              /\ log' = log \o Methods(effect.requests)
              /\ call' = Called("__init__", args, effect, reply)
    /\ UNCHANGED <<last_set, ncalls>>

SetQueryTimeout ==
    /\ phase = "ready"
    /\ ncalls < MaxCalls
    /\ \E timeout \in TimeoutArgs :
          LET effect == set_query_timeout(self, timeout)
          IN  /\ self' = effect.self
              /\ log' = log \o Methods(effect.requests)
              /\ call' = Called("set_query_timeout", [timeout |-> timeout], effect,
                              None)
              /\ last_set' = IF effect.outcome.kind = "return" THEN timeout
                             ELSE last_set
    /\ ncalls' = ncalls + 1
    /\ UNCHANGED phase

Query ==
    /\ phase = "ready"
    /\ ncalls < MaxCalls
    /\ \E uri \in Uris, kwargs \in Kwargs, reply \in PostReplies :
          LET effect == query(self, uri, kwargs, reply)
          IN  /\ self' = effect.self
              /\ log' = log \o Methods(effect.requests)
              /\ call' = Called("query", [uri |-> uri, kwargs |-> kwargs], effect,
                              reply)
    /\ ncalls' = ncalls + 1
    /\ UNCHANGED <<phase, last_set>>

Feedback ==
    /\ phase = "ready"
    /\ ncalls < MaxCalls
    /\ \E key \in Keys, data \in FeedbackData, reply \in PostReplies :
          LET effect == feedback(self, key, data, reply)
          IN  /\ self' = effect.self
              /\ log' = log \o Methods(effect.requests)
              /\ call' = Called("feedback", [key |-> key, data |-> data], effect,
                              reply)
    /\ ncalls' = ncalls + 1
    /\ UNCHANGED <<phase, last_set>>

Next == Construct \/ SetQueryTimeout \/ Query \/ Feedback

Spec == Init /\ [][Next]_vars

-----------------------------------------------------------------------------
(* What the claims speak of.                                               *)

\* the call's exchange got an answer from the server
Answered == call.requests # <<>> /\ call.reply # NetworkError
\* the members of the JSON body a request carries
BodyKeys(request) == {p[1] : p \in request.data.members}
\* an integer above zero, of either of Python 2's integer types
PositiveInteger(v) == v.type \in {"int", "long"} /\ v.num > 0
IsString(v) == v.type \in {"str", "unicode"}
Given(v) == v # None /\ v # PyStr("")

\* C1: feedback(key, data) with a string key and a mapping data returns the
\* parsed JSON body when the server answers 200 and fails with RequestError
\* (RuntimeError) on every other status; it never returns normally on a
\* non-200 answer.
C1_FeedbackMapsStatus ==
    (/\ call.op = "feedback"
     /\ IsString(call.args.key)
     /\ call.args.data.type = "dict"
     /\ Answered)
        => IF call.reply.status_code = 200
           THEN JsonLoads(call.reply.text).kind = "return"
                    => call.outcome = JsonLoads(call.reply.text)
           ELSE /\ call.outcome.kind = "raise"
                /\ call.outcome.exc = "RuntimeError"

\* C2 as stated: for a query with a string uri the status of the single POST
\* decides the outcome: 200 returns the parsed JSON body, 404 fails with
\* NotFoundError (NonExistError), every other status fails with RequestError
\* (RuntimeError) carrying the status code and the response text.
C2_QueryOutcomeByStatus ==
    (call.op = "query" /\ IsString(call.args.uri) /\ Answered)
        => /\ Len(call.requests) = 1
           /\ call.requests[1].method = "POST"
           /\ CASE call.reply.status_code = 200 ->
                      /\ call.outcome.kind = "return"
                      /\ call.outcome.value.type = "dict"
                [] call.reply.status_code = 404 ->
                      /\ call.outcome.kind = "raise"
                      /\ call.outcome.exc = "NonExistError"
                [] OTHER ->
                      /\ call.outcome.kind = "raise"
                      /\ call.outcome.exc = "RuntimeError"
                      /\ call.outcome.status_code = call.reply.status_code
                      /\ call.outcome.text = call.reply.text

\* C2, amended: for a query with a string uri whose single POST is answered,
\* status 200 returns the parsed body when the body is JSON and fails with
\* the decoder's ValueError when it is not; 404 fails with NonExistError;
\* every other status fails with RuntimeError carrying the status code and
\* the response text.
C2_QueryOutcomeByStatusAndBody ==
    (call.op = "query" /\ IsString(call.args.uri) /\ Answered)
        => /\ Len(call.requests) = 1
           /\ call.requests[1].method = "POST"
           /\ CASE call.reply.status_code = 200
                     /\ call.reply.text \in {AckText, ResponseText} ->
                      /\ call.outcome.kind = "return"
                      /\ call.outcome.value.type = "dict"
                      /\ call.outcome = JsonLoads(call.reply.text)
                [] call.reply.status_code = 200
                     /\ call.reply.text \notin {AckText, ResponseText} ->
                      /\ call.outcome.kind = "raise"
                      /\ call.outcome.exc = "ValueError"
                [] call.reply.status_code = 404 ->
                      /\ call.outcome.kind = "raise"
                      /\ call.outcome.exc = "NonExistError"
                [] OTHER ->
                      /\ call.outcome.kind = "raise"
                      /\ call.outcome.exc = "RuntimeError"
                      /\ call.outcome.status_code = call.reply.status_code
                      /\ call.outcome.text = call.reply.text

C2_Witness ==
    /\ call.op = "query"
    /\ call.args.uri = PyStr("recommender")
    /\ call.reply = Response(200, HtmlText)
    /\ call.outcome.kind = "raise"
    /\ call.outcome.exc = "ValueError"

\* C3: every POST of query or feedback carries api_key in its JSON body if
\* and only if the schema version cached at construction is below 7.
C3_ApiKeyIffOldSchema ==
    \A i \in 1..Len(call.requests) :
        call.requests[i].method = "POST"
            => ("api_key" \in BodyKeys(call.requests[i])
                    <=> self._schema_version.num < 7)

C3_Witness ==
    /\ call.op = "feedback"
    /\ call.requests # <<>>
    /\ self._schema_version = PyInt(7)
    /\ BodyKeys(call.requests[1]) = {"data", "id"}

\* the schema version a ping answer advertises: the schema_version member of
\* a JSON object answered with 200, otherwise -1
Advertised(reply) ==
    IF reply # NetworkError /\ reply.status_code = 200
          /\ \E n \in SchemaVersions : reply.text = SchemaText(n)
    THEN PyInt(CHOOSE n \in SchemaVersions : reply.text = SchemaText(n))
    ELSE PyInt(-1)

\* the constructor's arguments name a complete configuration
Resolvable(args) ==
    IF args.config_file # None
    THEN args.config_file.s \in
             {"/etc/ps/full.ini", "/etc/ps/noverify.ini",
              "/etc/ps/verifyoff.ini"}
    ELSE Given(args.endpoint) /\ Given(args.api_key)

\* C4: once the configuration is resolved construction succeeds whatever the
\* ping answers: a 200 answer with a JSON object caches its schema_version
\* (-1 when absent); a network error, a non-200 status or a body that is not
\* a JSON object is swallowed and caches -1.
C4_PingNeverFailsConstruction ==
    call.op = "__init__"
        => /\ Resolvable(call.args)
                => /\ phase = "ready"
                   /\ call.outcome.kind = "return"
                   /\ Len(call.requests) = 1
           /\ phase = "ready"
                => self._schema_version = Advertised(call.reply)

C4_Witness ==
    /\ call.op = "__init__"
    /\ phase = "ready"
    /\ call.reply = Response(500, SchemaText(5))
    /\ self._schema_version = PyInt(-1)

\* C5: set_query_timeout(seconds) fails with InvalidArgument (ValueError)
\* whenever seconds is not a positive integer and then leaves the stored
\* timeout as it was; for a positive integer it returns and stores that
\* value; the stored timeout of a constructed client is always a positive
\* integer.
C5_TimeoutValidated ==
    [][/\ phase' = "ready" => PositiveInteger(self'.query_timeout)
       /\ (ncalls' # ncalls /\ call'.op = "set_query_timeout")
             => IF PositiveInteger(call'.args.timeout)
                THEN /\ call'.outcome.kind = "return"
                     /\ self'.query_timeout = call'.args.timeout
                ELSE /\ call'.outcome.kind = "raise"
                     /\ call'.outcome.exc = "ValueError"
                     /\ self'.query_timeout = self.query_timeout]_vars

\* C6: the timeout of a query POST is the argument of the most recent
\* set_query_timeout call that returned (10 when there was none); the timeout
\* of a feedback POST is always 10.
C6_TimeoutOfEachPost ==
    \A i \in 1..Len(call.requests) :
        /\ call.op = "query"
              => call.requests[i].timeout =
                     (IF last_set = None THEN PyInt(10) ELSE last_set)
        /\ call.op = "feedback" => call.requests[i].timeout = PyInt(10)

C6_Witness ==
    /\ call.op = "feedback"
    /\ call.requests # <<>>
    /\ last_set = PyInt(30)
    /\ call.requests[1].timeout = PyInt(10)

\* C7: query with a non-string uri, and feedback with a non-string key or a
\* data that is no mapping, fail with InvalidArgument (TypeError from query,
\* RuntimeError from feedback's checks) and issue no HTTP request.
C7_ValidationBeforeNetwork ==
    /\ (call.op = "query" /\ ~IsString(call.args.uri))
          => /\ call.outcome.kind = "raise"
             /\ call.outcome.exc = "TypeError"
             /\ call.requests = <<>>
    /\ (call.op = "feedback"
          /\ (~IsString(call.args.key) \/ call.args.data.type # "dict"))
          => /\ call.outcome.kind = "raise"
             /\ call.outcome.exc = "RuntimeError"
             /\ call.outcome.site \in {"feedback:200", "feedback:202"}
             /\ call.requests = <<>>

C7_Witness ==
    /\ call.op = "feedback"
    /\ call.args = [key |-> PyStr("id1"), data |-> PyList(1)]
    /\ call.outcome.kind = "raise"
    /\ call.requests = <<>>
    /\ Len(log) = 1

\* the constructor's arguments the claim C8 rejects
Unconfigured(args) ==
    IF args.config_file = None
    THEN ~Given(args.endpoint) \/ ~Given(args.api_key)
    ELSE \/ ~File(args.config_file.s).isfile
         \/ SERVICE_INFO_SECTION_NAME \notin File(args.config_file.s).sections

\* no certificate setting: the argument omitted, or the file silent on it
CertificateUnset(args) ==
    IF args.config_file = None
    THEN args.should_verify_certificate = None
    ELSE ~has_option(File(args.config_file.s), "verify certificate")

\* C8: construction fails with a configuration error (ValueError,
\* RuntimeError) before any ping GET when no config_file is given and
\* endpoint or api_key is missing, when config_file is no existing file, or
\* when the file has no Service Info section; a client constructed without a
\* certificate setting does not verify certificates.
C8_ConfigurationErrors ==
    call.op = "__init__"
        => /\ Unconfigured(call.args)
                => /\ phase = "failed"
                   /\ call.outcome.kind = "raise"
                   /\ call.outcome.exc \in {"ValueError", "RuntimeError"}
                   /\ call.requests = <<>>
                   /\ log = <<>>
           /\ (phase = "ready" /\ CertificateUnset(call.args))
                => self.should_verify_certificate = PyBool(FALSE)

C8_Witness ==
    /\ call.op = "__init__"
    /\ call.args.config_file = PyStr("/etc/ps/noverify.ini")
    /\ phase = "ready"
    /\ self.should_verify_certificate = PyBool(FALSE)
    /\ log = <<"GET">>

\* C9: no retries.  A constructed client has issued exactly one GET, before
\* every POST; a failed construction has issued nothing; every call issues at
\* most one request; an exchange that fails ends the call after that one
\* request, the failure handed to the caller: a network error as the
\* exception, an error status as query's exception or in the Response
\* feedback returns.
C9_NoRetries ==
    /\ phase = "ready"
          => /\ Len(log) >= 1
             /\ log[1] = "GET"
             /\ \A i \in 2..Len(log) : log[i] = "POST"
    /\ phase # "ready" => log = <<>>
    /\ Len(log) <= 1 + ncalls
    /\ Len(call.requests) <= 1
    /\ (call.op \in {"query", "feedback"} /\ call.requests # <<>>)
          => /\ call.requests[1].method = "POST"
             /\ call.reply = NetworkError
                   => /\ call.outcome.kind = "raise"
                      /\ call.outcome.exc = "ConnectionError"
             /\ (call.reply # NetworkError /\ call.reply.status_code # 200)
                   => \/ call.outcome.kind = "raise"
                      \/ call.outcome = Return(call.reply)

C9_Witness ==
    /\ call.op = "query"
    /\ call.reply = NetworkError
    /\ call.outcome.kind = "raise"
    /\ log = <<"GET", "POST", "POST">>

\* C10: on a constructed client no call changes endpoint, api_key,
\* should_verify_certificate or the cached schema version, and only
\* set_query_timeout changes the query timeout.
C10_AttributesFixed ==
    [][phase = "ready"
        => /\ phase' = "ready"
           /\ self'.endpoint = self.endpoint
           /\ self'.api_key = self.api_key
           /\ self'.should_verify_certificate = self.should_verify_certificate
           /\ self'._schema_version = self._schema_version
           /\ self'.session = self.session
           /\ self'.query_timeout # self.query_timeout
                 => call'.op = "set_query_timeout"]_vars

C10_Witness ==
    /\ call.op = "feedback"
    /\ call.requests # <<>>
    /\ ncalls >= 2
    /\ last_set = PyInt(30)
    /\ self._schema_version = PyInt(5)

====
